---- MODULE Spec2Model ----
(***************************************************************************)
(* Media ingestion and transcription request pipeline of main.py:          *)
(* the upload handlers (transcribe_media, transcribe_audio_legacy,         *)
(* transcribe_video), the URL handlers (transcribe_from_url,               *)
(* transcribe_from_url_simple) and download_file_from_url.                 *)
(*                                                                         *)
(* Text is modelled as a sequence of tokens: the punctuation the code      *)
(* looks at (".", "/", the double quote, "filename=") is a token of its    *)
(* own, every other token is a run of ordinary characters.  Sizes are      *)
(* bytes.  Log-probabilities are integers counting tenths.                 *)
(***************************************************************************)
EXTENDS Integers, Sequences, FiniteSets, TLC

\* ------------------------------------------------------------------ bounds
NumReqs == 2            \* request slots that can be in flight together
MaxPaths == 2           \* temporary file names the disk can hold
MaxBodyChunks == 3      \* chunks a remote body is delivered in
MaxSegs == 3            \* segments in an engine result

Reqs == 1..NumReqs
Paths == 1..MaxPaths
None == 0               \* Python's None for a path variable

\* --------------------------------------------------------- program constants
MB == 1024 * 1024
AudioMaxSize == 100 * MB
VideoMaxSize == 500 * MB
DefaultMaxFileSizeMb == 500
chunk_size == 8192

\* ------------------------------------------------------------- text helpers
DOT == "."
SLASH == "/"
QUOTE == "dq"
FILENAME_EQ == "filename="
SEMI == ";"

\* str.lower() on one token
Lower(tok) ==
  CASE tok = "MP3" -> "mp3"
    [] tok = "WAV" -> "wav"
    [] tok = "M4A" -> "m4a"
    [] tok = "FLAC" -> "flac"
    [] tok = "OGG" -> "ogg"
    [] tok = "AAC" -> "aac"
    [] tok = "OPUS" -> "opus"
    [] tok = "WMA" -> "wma"
    [] tok = "MP4" -> "mp4"
    [] tok = "Mp4" -> "mp4"
    [] tok = "AVI" -> "avi"
    [] tok = "MOV" -> "mov"
    [] tok = "MKV" -> "mkv"
    [] tok = "WEBM" -> "webm"
    [] tok = "WebM" -> "webm"
    [] tok = "M4V" -> "m4v"
    [] tok = "3GP" -> "3gp"
    [] tok = "FLV" -> "flv"
    [] tok = "WMV" -> "wmv"
    [] tok = "TXT" -> "txt"
    [] OTHER -> tok

LowerSeq(s) == [i \in 1..Len(s) |-> Lower(s[i])]

\* positions of token t in s
Positions(s, t) == {i \in 1..Len(s) : s[i] = t}

Max(S) == CHOOSE x \in S : \A y \in S : y <= x
Min(S) == CHOOSE x \in S : \A y \in S : x <= y

\* s[i..] ; empty when i is past the end
From(s, i) == IF i > Len(s) THEN <<>> ELSE SubSeq(s, i, Len(s))

\* os.path.basename: everything after the last "/"
Basename(path) ==
  IF Positions(path, SLASH) = {} THEN path
  ELSE From(path, Max(Positions(path, SLASH)) + 1)

\* pathlib's PurePath.name: trailing separators are dropped first
RECURSIVE StripTrailingSlash(_)
StripTrailingSlash(s) ==
  IF s # <<>> /\ s[Len(s)] = SLASH
    THEN StripTrailingSlash(SubSeq(s, 1, Len(s) - 1))
    ELSE s

PathName(filename) == Basename(StripTrailingSlash(filename))

\* pathlib's PurePath.suffix: from the last "." of the name, unless that
\* dot is the first or the last character of the name
PathSuffix(filename) ==
  LET name == PathName(filename)
      dots == Positions(name, DOT)
  IN  IF dots = {} THEN <<>>
      ELSE LET i == Max(dots)
           IN  IF 1 < i /\ i < Len(name) THEN From(name, i) ELSE <<>>

Ext(e) == <<DOT, e>>
AUDIO_EXTENSIONS ==
  {Ext(e) : e \in {"mp3", "wav", "m4a", "flac", "ogg", "aac", "opus", "wma"}}
VIDEO_EXTENSIONS ==
  {Ext(e) : e \in {"mp4", "avi", "mov", "mkv", "webm", "m4v", "3gp", "flv", "wmv"}}

\* the classification without the .lower() of the suffix
get_file_type_case_sensitive(filename) ==
  LET ext == PathSuffix(filename)
  IN  IF ext \in AUDIO_EXTENSIONS THEN "audio"
      ELSE IF ext \in VIDEO_EXTENSIONS THEN "video"
      ELSE "unknown"

get_file_type(filename) ==
  LET ext == LowerSeq(PathSuffix(filename))
  IN  IF ext \in AUDIO_EXTENSIONS THEN "audio"
      ELSE IF ext \in VIDEO_EXTENSIONS THEN "video"
      ELSE "unknown"

\* ------------------------------------------------------------ confidence
\* A segment is <<>> when it has no "avg_logprob" key and <<v>> when it
\* carries the value v.  A confidence is <<>> for None and <<sum, n>> for
\* the quotient sum / n.
LogProbs == {-5, -3, -1, 0}
Segments == {<<>>} \cup {<<v>> : v \in LogProbs}

\* segment.get("avg_logprob", 0)
AvgLogprobOrDefault(segment) == IF segment = <<>> THEN 0 ELSE segment[1]

RECURSIVE SumSeq(_)
SumSeq(s) == IF s = <<>> THEN 0 ELSE s[1] + SumSeq(Tail(s))

\* result is [has_segments |-> BOOLEAN, segments |-> sequence of segments]
Confidence(result) ==
  IF result.has_segments /\ result.segments # <<>>
    THEN LET confidences == [i \in 1..Len(result.segments) |->
                               AvgLogprobOrDefault(result.segments[i])]
         IN  <<SumSeq(confidences), Len(confidences)>>
    ELSE <<>>

EngineResult(segments) == [has_segments |-> TRUE, segments |-> segments]
NoSegmentsKey == [has_segments |-> FALSE, segments |-> <<>>]

\* what the pipeline's engine returns
EngineResults ==
  {NoSegmentsKey, EngineResult(<<>>), EngineResult(<<<<-1>>, <<-3>>, <<-5>>>>),
   EngineResult(<<<<-3>>, <<>>>>)}

\* what the confidence derivation alone is driven with
SegLists == UNION {[1..n -> Segments] : n \in 0..MaxSegs}
AllEngineResults == {NoSegmentsKey} \cup {EngineResult(s) : s \in SegLists}

\* ------------------------------------------------------------- exceptions
HTTPException(status, detail) ==
  [type |-> "HTTPException", status |-> status, detail |-> detail, msg |-> ""]
Raised(type, msg) ==
  [type |-> type, status |-> 0, detail |-> "", msg |-> msg]

\* except HTTPException: raise / except Exception as e: 500 with str(e)
HandlerExcept(e) ==
  IF e.type = "HTTPException" THEN e
  ELSE [type |-> "HTTPException", status |-> 500,
        detail |-> "Transcription failed: ", msg |-> e.msg]

NoResp ==
  [status |-> 0, detail |-> "", msg |-> "", confidence |-> <<>>,
   file_type |-> "", source |-> ""]
ErrorResp(e) ==
  [status |-> e.status, detail |-> e.detail, msg |-> e.msg,
   confidence |-> <<>>, file_type |-> "", source |-> ""]

\* the response built with source="upload" whatever the handler
TranscriptionResponseUploadOnly(confidence, ftype, source) ==
  [status |-> 200, detail |-> "", msg |-> "", confidence |-> confidence,
   file_type |-> ftype, source |-> "upload"]

TranscriptionResponse(confidence, ftype, source) ==
  [status |-> 200, detail |-> "", msg |-> "", confidence |-> confidence,
   file_type |-> ftype, source |-> source]

NoFault == [kind |-> "none", msg |-> ""]
Fault(kind, msg) == [kind |-> kind, msg |-> msg]

\* ---------------------------------------------------- filename resolution
CLAbsent == -1          \* no Content-Length header
CLMalformed == -2       \* a Content-Length header that int() rejects
NoHead == [ok |-> FALSE, cd |-> <<>>, ct |-> <<>>]

\* s.split('filename=')[1]: what lies between the first "filename=" and the
\* next one (or the end)
SplitSecond(s) ==
  LET occ == Positions(s, FILENAME_EQ)
      first == Min(occ)
      rest == occ \ {first}
      stop == IF rest = {} THEN Len(s) ELSE Min(rest) - 1
  IN  IF first + 1 > stop THEN <<>> ELSE SubSeq(s, first + 1, stop)

\* s.strip('"')
RECURSIVE StripQuotes(_)
StripQuotes(s) ==
  IF s = <<>> THEN s
  ELSE IF s[1] = QUOTE THEN StripQuotes(Tail(s))
  ELSE IF s[Len(s)] = QUOTE THEN StripQuotes(SubSeq(s, 1, Len(s) - 1))
  ELSE s

InText(tok, s) == \E i \in 1..Len(s) : s[i] = tok

\* the HEAD probe is needed when the URL gives no name with a dot
NeedsProbe(url) ==
  LET original_filename == Basename(url)
  IN  original_filename = <<>> \/ ~InText(DOT, original_filename)

\* the name chosen from the HEAD response (head.ok = FALSE: the probe raised)
ProbedName(head) ==
  IF ~head.ok THEN <<"media_file">>
  ELSE IF InText(FILENAME_EQ, head.cd) THEN StripQuotes(SplitSecond(head.cd))
  ELSE IF InText("video", head.ct) THEN <<"video_file", DOT, "mp4">>
  ELSE IF InText("audio", head.ct) THEN <<"audio_file", DOT, "mp3">>
  ELSE <<"media_file">>

\* original_filename of download_file_from_url
ResolveName(url, head) ==
  LET original_filename ==
        IF NeedsProbe(url) THEN ProbedName(head) ELSE Basename(url)
  IN  IF ~InText(DOT, original_filename)
        THEN original_filename \o <<DOT, "mp4">>
        ELSE original_filename

\* ------------------------------------------------------------------ inputs
Name(stem, e) == <<stem, DOT, e>>
UploadNames ==
  {<<>>, Name("clip", "mp4"), Name("talk", "WAV"), Name("notes", "txt"),
   <<"README">>}
\* shutil.copyfileobj moves the upload in blocks of COPY_BUFSIZE bytes into
\* the buffered temporary file; a final block that fits the file's buffer
\* stays in the buffer until the file is closed.  The buffer has the block
\* size of the file system, or io.DEFAULT_BUFFER_SIZE.
COPY_BUFSIZE == 64 * 1024
BufferSizes == {4096, 8192}
UploadSizes ==
  {0, AudioMaxSize, AudioMaxSize + 1, AudioMaxSize + 8192,
   AudioMaxSize + COPY_BUFSIZE, VideoMaxSize + 1, VideoMaxSize + COPY_BUFSIZE}

\* os.path.getsize of the temporary file while it is still open, n bytes
\* having been copied into it through a buffer of bufsize bytes
SizeOnDisk(n, bufsize) ==
  LET tail == n % COPY_BUFSIZE
  IN  IF tail > 0 /\ tail <= bufsize THEN n - tail ELSE n
UploadEndpoints == {"/transcribe/", "/transcribe/audio/", "/transcribe/video/"}
UrlEndpoints == {"/transcribe/url/", "/transcribe/from-url/"}

UrlPath(name) == <<SLASH, "media", SLASH>> \o name
Quoted(name) == <<QUOTE>> \o name \o <<QUOTE>>
Disposition(value) == <<"attachment", SEMI, FILENAME_EQ>> \o value
HeadResponse(cd, ct) == [ok |-> TRUE, cd |-> cd, ct |-> ct]

\* what the pipeline is driven with
UrlPaths ==
  {UrlPath(<<"file">>), UrlPath(Name("talk", "wav")), UrlPath(Name("notes", "txt"))}
HeadResponses ==
  {NoHead,
   HeadResponse(Disposition(Quoted(Name("talk", "wav"))), <<>>),
   HeadResponse(<<>>, <<"video", SLASH, "mp4">>),
   HeadResponse(<<>>, <<>>)}

\* what filename resolution alone is driven with
AllUrlPaths ==
  UrlPaths \cup
    {<<>>, UrlPath(<<>>), UrlPath(<<"talk", DOT>>), UrlPath(<<DOT, "hidden">>),
     UrlPath(Name("clip", "MP4")), <<SLASH, "v", DOT, "d", SLASH, "file">>}
Dispositions ==
  {<<>>, <<"inline">>, Disposition(<<>>), Disposition(<<QUOTE, QUOTE>>),
   Disposition(Quoted(Name("talk", "wav"))),
   Disposition(Name("talk", "wav")),
   Disposition(Quoted(<<"talk">>)),
   Disposition(Quoted(<<"talk", DOT>>)),
   Disposition(Quoted(Name("talk", "wav"))) \o <<SEMI, "size=3">>,
   Disposition(Quoted(Name("a", "mp3"))) \o <<SEMI, FILENAME_EQ>>
     \o Quoted(Name("b", "mp4"))}
ContentTypes ==
  {<<>>, <<"video", SLASH, "mp4">>, <<"audio", SLASH, "mpeg">>,
   <<"text", SLASH, "html">>, <<"application", SLASH, "audio", "+", "video">>}
AllHeadResponses ==
  {NoHead} \cup {HeadResponse(cd, ct) : cd \in Dispositions, ct \in ContentTypes}

MbValues == {0, 1, DefaultMaxFileSizeMb}
ContentLengths == {CLAbsent, CLMalformed, 0, MB, MB + 1, 600000000}
\* len(chunk): iter_content yields at most chunk_size bytes of an identity
\* body, and whatever chunk_size compressed bytes decode to otherwise
ChunkLens == {1, chunk_size, MB - chunk_size}

\* ------------------------------------------------------------------- state
VARIABLES
  model,         \* TRUE when the global Whisper model is loaded
  disk,          \* temporary files that exist
  pc,            \* position of each request's handler
  endpoint,      \* route of the request
  filename,      \* media_file.filename / original_filename
  file_type,     \* local file_type
  max_size,      \* max_size / max_size_bytes
  temp_path,     \* temp_media_path / temp_file_path of the handler
  file_size,     \* file_size / downloaded_size
  written,       \* bytes written through the open temporary file object
  dl,            \* locals of download_file_from_url
  engine_calls,  \* calls of model.transcribe made by the request
  result,        \* local result: what model.transcribe returned
  removes,       \* the request's calls of os.remove / os.unlink, in order
  created,       \* temporary file the request created (None when none)
  fault,         \* first exception raised while serving the request
  resp           \* response of the request, once determined

vars == <<model, disk, pc, endpoint, filename, file_type, max_size, temp_path,
          file_size, written, dl, engine_calls, result, removes, created,
          fault, resp>>

NoResult == [has_segments |-> FALSE, segments |-> <<>>]
NoDl == [url |-> <<>>, probed |-> FALSE, head |-> NoHead, path |-> None,
         open |-> FALSE, content_length |-> CLAbsent, chunks |-> 0]

Init ==
  /\ model = FALSE
  /\ disk = {}
  /\ pc = [r \in Reqs |-> "idle"]
  /\ endpoint = [r \in Reqs |-> ""]
  /\ filename = [r \in Reqs |-> <<>>]
  /\ file_type = [r \in Reqs |-> ""]
  /\ max_size = [r \in Reqs |-> 0]
  /\ temp_path = [r \in Reqs |-> None]
  /\ file_size = [r \in Reqs |-> 0]
  /\ written = [r \in Reqs |-> 0]
  /\ dl = [r \in Reqs |-> NoDl]
  /\ engine_calls = [r \in Reqs |-> 0]
  /\ result = [r \in Reqs |-> NoResult]
  /\ removes = [r \in Reqs |-> <<>>]
  /\ created = [r \in Reqs |-> None]
  /\ fault = [r \in Reqs |-> NoFault]
  /\ resp = [r \in Reqs |-> NoResp]

Exists(p) == p \in disk

\* a temporary file created under any name, taken or not
AnyPaths == Paths

FreePaths == {p \in Paths : ~Exists(p)}

\* A handler is `async def` and never awaits anything that suspends it, so
\* it holds the event loop from its first line to its return.  The response
\* of a finished handler is written out before the loop starts the next
\* handler: Deliver touches only the request's own slot, so the order of
\* Deliver and another request's steps makes no difference to either.
Running(r) == pc[r] \notin {"idle", "pending"}
LoopFree == \A r \in Reqs : ~Running(r)

\* startup_event: model = whisper.load_model(...)
Startup ==
  /\ ~model
  /\ LoopFree
  /\ model' = TRUE
  /\ UNCHANGED <<disk, pc, endpoint, filename, file_type, max_size, temp_path,
                 file_size, written, dl, engine_calls, created, fault, resp>>
  /\ UNCHANGED <<result, removes>>

\* a request reaches the server and waits for the event loop
Receive(r) ==
  /\ pc[r] = "idle"
  /\ pc' = [pc EXCEPT ![r] = "pending"]
  /\ UNCHANGED <<model, disk, endpoint, filename, file_type, max_size,
                 temp_path, file_size, written, dl, engine_calls, created, fault, resp>>
  /\ UNCHANGED <<result, removes>>

\* the raise of an exception e that leaves the handler without a finally
Reject(r, kind, e) ==
  /\ fault' = [fault EXCEPT ![r] = Fault(kind, e.msg)]
  /\ resp' = [resp EXCEPT ![r] = ErrorResp(e)]
  /\ pc' = [pc EXCEPT ![r] = "done"]

\* ------------------------------------------------------------ upload path
\* FastAPI parses the form and calls the handler of the route
BeginUpload(r) ==
  /\ pc[r] = "pending"
  /\ LoopFree
  /\ FreePaths # {}
  /\ \E ep \in UploadEndpoints, fn \in UploadNames :
       /\ endpoint' = [endpoint EXCEPT ![r] = ep]
       /\ filename' = [filename EXCEPT ![r] = fn]
       /\ pc' = [pc EXCEPT ![r] =
                   IF ep = "/transcribe/video/" THEN "video" ELSE "media"]
  /\ UNCHANGED <<model, disk, file_type, max_size, temp_path, file_size, written, dl,
                 engine_calls, created, fault, resp>>
  /\ UNCHANGED <<result, removes>>

\* transcribe_video, up to its call of transcribe_media
transcribe_video(r) ==
  /\ pc[r] = "video"
  /\ IF filename[r] = <<>>
       THEN Reject(r, "NoFile", HTTPException(400, "No video file provided."))
     ELSE IF get_file_type(filename[r]) # "video"
       THEN Reject(r, "UnsupportedFormat",
                   HTTPException(400, "Expected video file."))
     ELSE /\ pc' = [pc EXCEPT ![r] = "media"]
          /\ UNCHANGED <<fault, resp>>
  /\ UNCHANGED <<model, disk, endpoint, filename, file_type, max_size,
                 temp_path, file_size, written, dl, engine_calls, created>>
  /\ UNCHANGED <<result, removes>>

\* max_size = 500 MB if file_type == "video" else 100 MB
UploadCeiling(ft) == IF ft = "video" THEN VideoMaxSize ELSE AudioMaxSize

\* transcribe_media, the checks before its try block
MediaGuards(r) ==
  /\ pc[r] = "media"
  /\ IF ~model
       THEN /\ Reject(r, "ModelUnavailable",
                      HTTPException(503, "Service unavailable: Model not loaded"))
            /\ UNCHANGED <<file_type, max_size>>
     ELSE IF filename[r] = <<>>
       THEN /\ Reject(r, "NoFile", HTTPException(400, "No media file provided."))
            /\ UNCHANGED <<file_type, max_size>>
     ELSE LET ft == get_file_type(filename[r])
          IN  /\ file_type' = [file_type EXCEPT ![r] = ft]
              /\ IF ft = "unknown"
                   THEN /\ Reject(r, "UnsupportedFormat",
                                  HTTPException(400, "Unsupported file format."))
                        /\ UNCHANGED max_size
                   ELSE /\ max_size' = [max_size EXCEPT ![r] = UploadCeiling(ft)]
                        /\ pc' = [pc EXCEPT ![r] = "stage"]
                        /\ UNCHANGED <<fault, resp>>
  /\ UNCHANGED <<model, disk, endpoint, filename, temp_path, file_size, written, dl,
                 engine_calls, created>>
  /\ UNCHANGED <<result, removes>>

\* an exception e raised inside the try block of transcribe_media: the
\* except clauses fix the response, the finally block runs next
MediaRaise(r, kind, e) ==
  /\ fault' = [fault EXCEPT ![r] = Fault(kind, e.msg)]
  /\ resp' = [resp EXCEPT ![r] = ErrorResp(HandlerExcept(e))]
  /\ pc' = [pc EXCEPT ![r] = "media_finally"]

\* with tempfile.NamedTemporaryFile(delete=False, ...) as temp_media:
\*     copyfileobj; temp_media_path = temp_media.name; getsize
MediaStage(r) ==
  /\ pc[r] = "stage"
  /\ \/ \* the temporary file cannot be created
        /\ MediaRaise(r, "Other", Raised("Exception", "cannot create"))
        /\ UNCHANGED <<disk, temp_path, file_size, written, created>>
     \/ \E p \in FreePaths, n \in UploadSizes :
          /\ disk' = disk \cup {p}
          /\ written' = [written EXCEPT ![r] = n]
          /\ created' = [created EXCEPT ![r] = p]
          /\ \/ \* copyfileobj raises after n bytes
                /\ MediaRaise(r, "Other", Raised("Exception", "copy failed"))
                /\ UNCHANGED <<temp_path, file_size>>
             \/ \* os.path.getsize raises
                /\ temp_path' = [temp_path EXCEPT ![r] = p]
                /\ MediaRaise(r, "Other", Raised("Exception", "stat failed"))
                /\ UNCHANGED file_size
             \/ \* getsize runs inside the with block, before the close
                \E bufsize \in BufferSizes :
                  /\ temp_path' = [temp_path EXCEPT ![r] = p]
                  /\ file_size' = [file_size EXCEPT ![r] = SizeOnDisk(n, bufsize)]
                  /\ pc' = [pc EXCEPT ![r] = "size_check"]
                  /\ UNCHANGED <<fault, resp>>
  /\ UNCHANGED <<model, endpoint, filename, file_type, max_size, dl,
                 engine_calls>>
  /\ UNCHANGED <<result, removes>>

\* if file_size > max_size
FileTooLarge(size, ceiling) == size > ceiling

\* if file_size > max_size: raise HTTPException(413)
MediaSizeCheck(r) ==
  /\ pc[r] = "size_check"
  /\ IF FileTooLarge(file_size[r], max_size[r])
       THEN MediaRaise(r, "PayloadTooLarge", HTTPException(413, "File too large."))
       ELSE /\ pc' = [pc EXCEPT ![r] = "dispatch"]
            /\ UNCHANGED <<fault, resp>>
  /\ UNCHANGED <<model, disk, endpoint, filename, file_type, max_size,
                 temp_path, file_size, written, dl, engine_calls, created>>
  /\ UNCHANGED <<result, removes>>

\* the dispatch with one retry after the engine raised
MediaDispatchRetry(r, results) ==
  /\ pc[r] = "dispatch"
  /\ \/ /\ engine_calls' = [engine_calls EXCEPT ![r] = @ + 2]
        /\ MediaRaise(r, "Engine", Raised("Exception", "engine error"))
        /\ UNCHANGED result
     \/ \E res \in results :
          /\ engine_calls' = [engine_calls EXCEPT ![r] = @ + 1]
          /\ result' = [result EXCEPT ![r] = res]
          /\ resp' = [resp EXCEPT ![r] =
               TranscriptionResponse(Confidence(res), file_type[r], "upload")]
          /\ pc' = [pc EXCEPT ![r] = "media_finally"]
          /\ UNCHANGED fault
  /\ UNCHANGED <<model, disk, endpoint, filename, file_type, max_size,
                 temp_path, file_size, written, dl, created>>
  /\ UNCHANGED removes

\* the dispatch that goes back to the size check and calls the engine again
\* whenever the engine raised
MediaDispatchUntilSuccess(r, results) ==
  /\ pc[r] = "dispatch"
  /\ engine_calls' = [engine_calls EXCEPT ![r] = 1]
  /\ \/ /\ pc' = [pc EXCEPT ![r] = "size_check"]
        /\ UNCHANGED <<result, fault, resp>>
     \/ \E res \in results :
          /\ result' = [result EXCEPT ![r] = res]
          /\ resp' = [resp EXCEPT ![r] =
               TranscriptionResponse(Confidence(res), file_type[r], "upload")]
          /\ pc' = [pc EXCEPT ![r] = "media_finally"]
          /\ UNCHANGED fault
  /\ UNCHANGED <<model, disk, endpoint, filename, file_type, max_size,
                 temp_path, file_size, written, dl, created>>
  /\ UNCHANGED removes

\* result = model.transcribe(temp_media_path) and the building of the response
MediaDispatchWith(r, results) ==
  /\ pc[r] = "dispatch"
  /\ engine_calls' = [engine_calls EXCEPT ![r] = @ + 1]
  /\ \/ /\ MediaRaise(r, "Engine", Raised("Exception", "engine error"))
        /\ UNCHANGED result
     \/ \E res \in results :
          /\ result' = [result EXCEPT ![r] = res]
          /\ resp' = [resp EXCEPT ![r] =
               TranscriptionResponse(Confidence(res), file_type[r], "upload")]
          /\ pc' = [pc EXCEPT ![r] = "media_finally"]
          /\ UNCHANGED fault
  /\ UNCHANGED <<model, disk, endpoint, filename, file_type, max_size,
                 temp_path, file_size, written, dl, created>>
  /\ UNCHANGED removes

MediaDispatch(r) == MediaDispatchWith(r, EngineResults)

\* finally: if temp_media_path and os.path.exists(...): try os.remove(...)
\* with a failing remove logged and swallowed
Removal(p, ok) == [path |-> p, ok |-> ok]

Cleanup(r) ==
  /\ IF temp_path[r] # None /\ Exists(temp_path[r])
       THEN \/ /\ disk' = disk \ {temp_path[r]}
               /\ removes' = [removes EXCEPT ![r] =
                                Append(@, Removal(temp_path[r], TRUE))]
            \/ \* os.remove raises: a warning is logged
               /\ UNCHANGED disk
               /\ removes' = [removes EXCEPT ![r] =
                                Append(@, Removal(temp_path[r], FALSE))]
       ELSE UNCHANGED <<disk, removes>>
  /\ pc' = [pc EXCEPT ![r] = "done"]

MediaFinally(r) ==
  /\ pc[r] = "media_finally"
  /\ Cleanup(r)
  /\ UNCHANGED <<model, endpoint, filename, file_type, max_size, temp_path,
                 file_size, written, dl, engine_calls, created, fault, resp>>
  /\ UNCHANGED result

\* the response has been sent; the slot serves the next request
Deliver(r) ==
  /\ pc[r] = "done"
  /\ pc' = [pc EXCEPT ![r] = "idle"]
  /\ endpoint' = [endpoint EXCEPT ![r] = ""]
  /\ filename' = [filename EXCEPT ![r] = <<>>]
  /\ file_type' = [file_type EXCEPT ![r] = ""]
  /\ max_size' = [max_size EXCEPT ![r] = 0]
  /\ temp_path' = [temp_path EXCEPT ![r] = None]
  /\ file_size' = [file_size EXCEPT ![r] = 0]
  /\ written' = [written EXCEPT ![r] = 0]
  /\ dl' = [dl EXCEPT ![r] = NoDl]
  /\ engine_calls' = [engine_calls EXCEPT ![r] = 0]
  /\ result' = [result EXCEPT ![r] = NoResult]
  /\ removes' = [removes EXCEPT ![r] = <<>>]
  /\ created' = [created EXCEPT ![r] = None]
  /\ fault' = [fault EXCEPT ![r] = NoFault]
  /\ resp' = [resp EXCEPT ![r] = NoResp]
  /\ UNCHANGED <<model, disk>>

\* --------------------------------------------------------------- URL path
BeginUrlWith(r, paths) ==
  /\ pc[r] = "pending"
  /\ LoopFree
  /\ FreePaths # {}
  /\ \E ep \in UrlEndpoints, url \in paths :
       /\ endpoint' = [endpoint EXCEPT ![r] = ep]
       /\ dl' = [dl EXCEPT ![r].url = url]
  /\ pc' = [pc EXCEPT ![r] = "url"]
  /\ UNCHANGED <<model, disk, filename, file_type, max_size, temp_path,
                 file_size, written, engine_calls, created, fault, resp>>
  /\ UNCHANGED <<result, removes>>

BeginUrl(r) == BeginUrlWith(r, UrlPaths)

\* an exception e raised inside the try block of transcribe_from_url
UrlRaise(r, kind, e) ==
  /\ fault' = [fault EXCEPT ![r] = Fault(kind, e.msg)]
  /\ resp' = [resp EXCEPT ![r] = ErrorResp(HandlerExcept(e))]
  /\ pc' = [pc EXCEPT ![r] = "url_finally"]

\* the except clauses with `except Exception` first: everything becomes 500
DownloadExceptCatchAll(e) ==
  [type |-> "HTTPException", status |-> 500,
   detail |-> "Download failed: ", msg |-> e.msg]

\* the except clauses of download_file_from_url
DownloadExcept(e) ==
  IF e.type = "RequestException"
    THEN [type |-> "HTTPException", status |-> 400,
          detail |-> "Failed to download file: ", msg |-> e.msg]
  ELSE IF e.type = "HTTPException" THEN e
  ELSE [type |-> "HTTPException", status |-> 500,
        detail |-> "Download failed: ", msg |-> e.msg]

\* an exception e raised inside download_file_from_url: it leaves through
\* the function's except clauses and then the caller's
DownloadRaise(r, kind, e) ==
  /\ fault' = [fault EXCEPT ![r] = Fault(kind, e.msg)]
  /\ resp' = [resp EXCEPT ![r] = ErrorResp(HandlerExcept(DownloadExcept(e)))]
  /\ pc' = [pc EXCEPT ![r] = "url_finally"]

\* transcribe_from_url up to its call of download_file_from_url;
\* transcribe_from_url_simple builds the request with the default ceiling
UrlGuards(r) ==
  /\ pc[r] = "url"
  /\ IF ~model
       THEN /\ Reject(r, "ModelUnavailable",
                      HTTPException(503, "Service unavailable: Model not loaded"))
            /\ UNCHANGED max_size
       ELSE \/ \E mb \in (IF endpoint[r] = "/transcribe/url/"
                            THEN MbValues ELSE {DefaultMaxFileSizeMb}) :
                 /\ max_size' = [max_size EXCEPT ![r] = mb * MB]
                 /\ pc' = [pc EXCEPT ![r] = "resolve"]
                 /\ UNCHANGED <<fault, resp>>
            \/ \* max_file_size_mb is null: None * 1024 raises TypeError
               /\ endpoint[r] = "/transcribe/url/"
               /\ UrlRaise(r, "Other", Raised("Exception", "unsupported operand"))
               /\ UNCHANGED max_size
  /\ UNCHANGED <<model, disk, endpoint, filename, file_type, temp_path,
                 file_size, written, dl, engine_calls, created>>
  /\ UNCHANGED <<result, removes>>

\* download_file_from_url: the filename, with the HEAD probe when needed
ResolveFilenameWith(r, heads) ==
  /\ pc[r] = "resolve"
  /\ IF NeedsProbe(dl[r].url)
       THEN \E head \in heads :
              /\ dl' = [dl EXCEPT ![r].probed = TRUE, ![r].head = head]
              /\ filename' = [filename EXCEPT ![r] = ResolveName(dl[r].url, head)]
       ELSE /\ filename' = [filename EXCEPT ![r] = ResolveName(dl[r].url, NoHead)]
            /\ UNCHANGED dl
  /\ pc' = [pc EXCEPT ![r] = "get"]
  /\ UNCHANGED <<model, disk, endpoint, file_type, max_size, temp_path,
                 file_size, written, engine_calls, created, fault, resp>>
  /\ UNCHANGED <<result, removes>>

ResolveFilename(r) == ResolveFilenameWith(r, HeadResponses)

\* the header comparison taken as "at least the ceiling"
ContentLengthExceedsInclusive(cl, ceiling) == cl # CLAbsent /\ cl >= ceiling

\* if content_length and int(content_length) > max_size_bytes
ContentLengthExceeds(cl, ceiling) == cl # CLAbsent /\ cl > ceiling

\* requests.get(stream=True), raise_for_status, the Content-Length check
Get(r) ==
  /\ pc[r] = "get"
  /\ \/ /\ DownloadRaise(r, "FetchFailure",
                         Raised("RequestException", "connection failed"))
        /\ UNCHANGED dl
     \/ /\ DownloadRaise(r, "FetchFailure",
                         Raised("RequestException", "404 Client Error"))
        /\ UNCHANGED dl
     \/ \E cl \in ContentLengths :
          /\ dl' = [dl EXCEPT ![r].content_length = cl]
          /\ IF cl = CLMalformed
               THEN DownloadRaise(r, "Other", Raised("Exception", "invalid literal"))
             ELSE IF ContentLengthExceeds(cl, max_size[r])
               THEN DownloadRaise(r, "PayloadTooLarge",
                                  HTTPException(413, "File too large."))
             ELSE /\ pc' = [pc EXCEPT ![r] = "create"]
                  /\ UNCHANGED <<fault, resp>>
  /\ UNCHANGED <<model, disk, endpoint, filename, file_type, max_size,
                 temp_path, file_size, written, engine_calls, created>>
  /\ UNCHANGED <<result, removes>>

\* temp_file = tempfile.NamedTemporaryFile(delete=False, suffix=file_ext)
CreateTemp(r) ==
  /\ pc[r] = "create"
  /\ \/ /\ DownloadRaise(r, "Other", Raised("Exception", "cannot create"))
        /\ UNCHANGED <<disk, dl, created>>
     \/ \E p \in FreePaths :
          /\ disk' = disk \cup {p}
          /\ created' = [created EXCEPT ![r] = p]
          /\ dl' = [dl EXCEPT ![r].path = p, ![r].open = TRUE]
          /\ pc' = [pc EXCEPT ![r] = "stream"]
          /\ UNCHANGED <<fault, resp>>
  /\ UNCHANGED <<model, endpoint, filename, file_type, max_size, temp_path,
                 file_size, written, engine_calls>>
  /\ UNCHANGED <<result, removes>>

\* if downloaded_size > max_size_bytes
RunningTotalExceeds(total, ceiling) == total > ceiling

\* one round of `for chunk in response.iter_content(chunk_size)` inside
\* `with temp_file:`; an empty chunk is skipped and changes nothing
DownloadChunk(r) ==
  /\ pc[r] = "stream"
  /\ \/ \* the connection breaks: iter_content raises, the with block closes
        /\ DownloadRaise(r, "FetchFailure",
                         Raised("RequestException", "connection broken"))
        /\ dl' = [dl EXCEPT ![r].open = FALSE]
        /\ UNCHANGED <<disk, file_size, written, removes>>
     \/ \E n \in ChunkLens :
          /\ dl[r].chunks < MaxBodyChunks
          /\ LET downloaded_size == file_size[r] + n
             IN  /\ file_size' = [file_size EXCEPT ![r] = downloaded_size]
                 /\ IF RunningTotalExceeds(downloaded_size, max_size[r])
                      THEN \* temp_file.close(); os.unlink(temp_file_path); raise 413
                           /\ dl' = [dl EXCEPT ![r].open = FALSE,
                                               ![r].chunks = @ + 1]
                           /\ UNCHANGED written
                           /\ \/ /\ disk' = disk \ {dl[r].path}
                                 /\ removes' = [removes EXCEPT ![r] =
                                      Append(@, Removal(dl[r].path, TRUE))]
                                 /\ DownloadRaise(r, "PayloadTooLarge",
                                      HTTPException(413, "File too large."))
                              \/ \* os.unlink raises
                                 /\ UNCHANGED disk
                                 /\ removes' = [removes EXCEPT ![r] =
                                      Append(@, Removal(dl[r].path, FALSE))]
                                 /\ DownloadRaise(r, "Other",
                                      Raised("Exception", "unlink failed"))
                      ELSE \* temp_file.write(chunk)
                           /\ UNCHANGED <<disk, removes>>
                           /\ \/ /\ written' = [written EXCEPT ![r] = @ + n]
                                 /\ dl' = [dl EXCEPT ![r].chunks = @ + 1]
                                 /\ UNCHANGED <<pc, fault, resp>>
                              \/ \* the write raises, the with block closes
                                 /\ dl' = [dl EXCEPT ![r].open = FALSE,
                                                     ![r].chunks = @ + 1]
                                 /\ UNCHANGED written
                                 /\ DownloadRaise(r, "Other",
                                      Raised("Exception", "write failed"))
  /\ UNCHANGED <<model, endpoint, filename, file_type, max_size, temp_path,
                 engine_calls, created>>
  /\ UNCHANGED result

\* the body ends: the with block closes the file and
\* download_file_from_url reaches its return statement
DownloadEnd(r) ==
  /\ pc[r] = "stream"
  /\ dl' = [dl EXCEPT ![r].open = FALSE]
  /\ pc' = [pc EXCEPT ![r] = "returned"]
  /\ UNCHANGED <<model, disk, endpoint, filename, file_type, max_size,
                 temp_path, file_size, written, engine_calls, created, fault,
                 resp>>
  /\ UNCHANGED <<result, removes>>

\* what is left of the locals of download_file_from_url once it has returned
\* or raised: nothing but the caller's request.url
Returned(d) == [NoDl EXCEPT !.url = d.url]

\* temp_file_path, original_filename = download_file_from_url(...);
\* file_type = get_file_type(original_filename); unknown raises 400
UrlClassify(r) ==
  /\ pc[r] = "returned"
  /\ temp_path' = [temp_path EXCEPT ![r] = dl[r].path]
  /\ dl' = [dl EXCEPT ![r] = Returned(dl[r])]
  /\ file_size' = [file_size EXCEPT ![r] = 0]
  /\ written' = [written EXCEPT ![r] = 0]
  /\ LET ft == get_file_type(filename[r])
     IN  /\ file_type' = [file_type EXCEPT ![r] = ft]
         /\ IF ft = "unknown"
              THEN UrlRaise(r, "UnsupportedFormat",
                            HTTPException(400, "Unsupported file format."))
              ELSE /\ pc' = [pc EXCEPT ![r] = "url_dispatch"]
                   /\ UNCHANGED <<fault, resp>>
  /\ UNCHANGED <<model, disk, endpoint, filename, max_size, engine_calls,
                 created>>
  /\ UNCHANGED <<result, removes>>

\* result = model.transcribe(temp_file_path) and the building of the response
UrlDispatchWith(r, results) ==
  /\ pc[r] = "url_dispatch"
  /\ engine_calls' = [engine_calls EXCEPT ![r] = @ + 1]
  /\ \/ /\ UrlRaise(r, "Engine", Raised("Exception", "engine error"))
        /\ UNCHANGED result
     \/ \E res \in results :
          /\ result' = [result EXCEPT ![r] = res]
          /\ resp' = [resp EXCEPT ![r] =
               TranscriptionResponse(Confidence(res), file_type[r], "url")]
          /\ pc' = [pc EXCEPT ![r] = "url_finally"]
          /\ UNCHANGED fault
  /\ UNCHANGED <<model, disk, endpoint, filename, file_type, max_size,
                 temp_path, file_size, written, dl, created>>
  /\ UNCHANGED removes

UrlDispatch(r) == UrlDispatchWith(r, EngineResults)

\* finally: if temp_file_path and os.path.exists(...): try os.remove(...)
UrlFinally(r) ==
  /\ pc[r] = "url_finally"
  /\ Cleanup(r)
  /\ dl' = [dl EXCEPT ![r] = Returned(dl[r])]
  /\ file_size' = [file_size EXCEPT ![r] = 0]
  /\ written' = [written EXCEPT ![r] = 0]
  /\ UNCHANGED <<model, endpoint, filename, file_type, max_size, temp_path,
                 engine_calls, created, fault, resp>>
  /\ UNCHANGED result

\* ------------------------------------------------------------ specification
Next ==
  \/ Startup
  \/ \E r \in Reqs : Receive(r)
  \/ \E r \in Reqs : BeginUpload(r)
  \/ \E r \in Reqs : transcribe_video(r)
  \/ \E r \in Reqs : MediaGuards(r)
  \/ \E r \in Reqs : MediaStage(r)
  \/ \E r \in Reqs : MediaSizeCheck(r)
  \/ \E r \in Reqs : MediaDispatch(r)
  \/ \E r \in Reqs : MediaFinally(r)
  \/ \E r \in Reqs : BeginUrl(r)
  \/ \E r \in Reqs : UrlGuards(r)
  \/ \E r \in Reqs : ResolveFilename(r)
  \/ \E r \in Reqs : Get(r)
  \/ \E r \in Reqs : CreateTemp(r)
  \/ \E r \in Reqs : DownloadChunk(r)
  \/ \E r \in Reqs : DownloadEnd(r)
  \/ \E r \in Reqs : UrlClassify(r)
  \/ \E r \in Reqs : UrlDispatch(r)
  \/ \E r \in Reqs : UrlFinally(r)
  \/ \E r \in Reqs : Deliver(r)

Spec == Init /\ [][Next]_vars

TypeOK ==
  /\ model \in BOOLEAN
  /\ disk \subseteq Paths
  /\ \A r \in Reqs :
       /\ temp_path[r] \in Paths \cup {None}
       /\ created[r] \in Paths \cup {None}
       /\ file_size[r] >= 0 /\ written[r] >= 0
       /\ engine_calls[r] >= 0

\* ------------------------------------------------------------------ claims
IsUpload(r) == endpoint[r] \in UploadEndpoints
IsUrl(r) == endpoint[r] \in UrlEndpoints
Failed(r) == fault[r].kind # "none"

\* C1: once a request has its response and its handler has returned, the
\* temporary file it created no longer exists.
C1_NoArtifactOutlivesRequest ==
  \A r \in Reqs :
    (pc[r] = "done" /\ created[r] # None) => ~Exists(created[r])

\* C2: within one request model.transcribe is called at most once; exactly
\* once when the request succeeds, never when the request is rejected or
\* fails before dispatch, and exactly once (no retry) when the engine raised.
C2_EngineInvokedOnce ==
  \A r \in Reqs :
    /\ engine_calls[r] <= 1
    /\ (pc[r] = "done" /\ resp[r].status = 200) => engine_calls[r] = 1
    /\ (Failed(r) /\ fault[r].kind # "Engine") => engine_calls[r] = 0
    /\ fault[r].kind = "Engine" => engine_calls[r] = 1

C2_Witness ==
  \E r \in Reqs :
    pc[r] = "done" /\ fault[r].kind = "Engine" /\ engine_calls[r] = 1

\* C3: in download_file_from_url, whatever Content-Length said, the bytes
\* written never exceed max_size_bytes; once the running total exceeds
\* max_size_bytes the fetch fails with 413 and the partial file is gone; a
\* running total of at most max_size_bytes never fails as too large
\* mid-stream.
C3_RunningTotalCeiling ==
  \A r \in Reqs :
    IsUrl(r) =>
      /\ written[r] <= max_size[r]
      /\ file_size[r] > max_size[r] =>
           /\ pc[r] = "url_finally"
           /\ resp[r].status = 413
           /\ ~Exists(created[r])
      /\ (file_size[r] <= max_size[r] /\ dl[r].chunks > 0) =>
           fault[r].kind # "PayloadTooLarge"

\* C4: a declared Content-Length above max_size_bytes fails the fetch with
\* 413 before any chunk is read and before a temporary file is created; a
\* declared Content-Length equal to max_size_bytes is not rejected by the
\* header check.
C4_HeaderCeiling ==
  \A r \in Reqs :
    /\ dl[r].content_length > max_size[r] =>
         /\ pc[r] = "url_finally"
         /\ resp[r].status = 413
         /\ dl[r].chunks = 0 /\ file_size[r] = 0
         /\ created[r] = None /\ dl[r].path = None
    /\ (pc[r] # "idle" /\ dl[r].content_length = max_size[r]) =>
         ~(fault[r].kind = "PayloadTooLarge" /\ dl[r].chunks = 0)

C4_Witness ==
  \E r \in Reqs :
    /\ pc[r] = "url_finally"
    /\ dl[r].content_length = 600000000
    /\ max_size[r] = DefaultMaxFileSizeMb * MB
    /\ resp[r].status = 413

\* the request's filename is known: declared (upload) or resolved (URL)
NameKnown(r) == IsUpload(r) \/ (IsUrl(r) /\ filename[r] # <<>>)

\* C5: a request whose filename classifies as unknown never has a temporary
\* file created for it nor any body byte transferred, and when nothing else
\* went wrong it is answered 400.
C5_UnknownNeverStaged ==
  \A r \in Reqs :
    (NameKnown(r) /\ get_file_type(filename[r]) = "unknown") =>
      /\ created[r] = None
      /\ file_size[r] = 0 /\ written[r] = 0 /\ dl[r].chunks = 0
      /\ (pc[r] = "done" /\ fault[r].kind \in {"none", "NoFile", "UnsupportedFormat"})
           => resp[r].status = 400

\* C6: while the model is not loaded every transcription endpoint answers
\* 503, whatever the input.
C6_ModelUnavailableFirst ==
  \A r \in Reqs : (pc[r] = "done" /\ ~model) => resp[r].status = 503

StatusOf(kind) ==
  CASE kind = "UnsupportedFormat" -> 400
    [] kind = "NoFile" -> 400
    [] kind = "PayloadTooLarge" -> 413
    [] kind = "FetchFailure" -> 400
    [] kind = "ModelUnavailable" -> 503
    [] kind = "Engine" -> 500
    [] kind = "Other" -> 500

\* C7: the response of a failed request has the status of the kind of the
\* exception that was raised, whichever handlers it passed through, and a
\* 500 carries the message of the original exception.
C7_StatusByKind ==
  \A r \in Reqs :
    Failed(r) =>
      /\ resp[r].status = StatusOf(fault[r].kind)
      /\ resp[r].status = 500 =>
           (resp[r].msg = fault[r].msg /\ resp[r].msg # "")

C7_Witness ==
  \E r \in Reqs :
    /\ pc[r] = "done" /\ IsUrl(r)
    /\ fault[r].kind = "FetchFailure" /\ resp[r].status = 400

\* the request called os.remove on its own artifact, once, and the artifact
\* is gone unless that call itself failed
Released(r) ==
  /\ Len(removes[r]) = 1
  /\ removes[r][1].path = created[r]
  /\ removes[r][1].ok => ~Exists(created[r])

\* the size of the upload was determined and compared
SizeChecked(r) ==
  /\ IsUpload(r)
  /\ pc[r] \in {"dispatch", "media_finally", "done"}
  /\ temp_path[r] # None
  /\ fault[r].kind \in {"none", "PayloadTooLarge", "Engine"}

\* C8: for an upload the ceiling is 100 MB for audio and 500 MB for video
\* and is compared with the size of the fully written artifact (written[r]
\* bytes): a size above it is answered 413, the artifact is released and the
\* engine is never called; a size up to and including the ceiling is not
\* rejected as too large.
C8_UploadCeiling ==
  \A r \in Reqs :
    /\ (IsUpload(r) /\ pc[r] \in {"stage", "size_check", "dispatch"}) =>
         /\ file_type[r] \in {"audio", "video"}
         /\ file_type[r] = "audio" => max_size[r] = 100 * 1024 * 1024
         /\ file_type[r] = "video" => max_size[r] = 500 * 1024 * 1024
    /\ SizeChecked(r) =>
         IF written[r] > max_size[r]
           THEN /\ pc[r] # "dispatch"
                /\ resp[r].status = 413
                /\ engine_calls[r] = 0
                /\ pc[r] = "done" => Released(r)
           ELSE fault[r].kind # "PayloadTooLarge"

\* ------------------------------------------- filename resolution on its own
\* download_file_from_url entered with any of the URLs, the model loaded
ResolveInit ==
  /\ model = TRUE
  /\ disk = {}
  /\ pc = [r \in Reqs |-> IF r = 1 THEN "resolve" ELSE "idle"]
  /\ endpoint = [r \in Reqs |-> IF r = 1 THEN "/transcribe/from-url/" ELSE ""]
  /\ filename = [r \in Reqs |-> <<>>]
  /\ file_type = [r \in Reqs |-> ""]
  /\ max_size = [r \in Reqs |-> IF r = 1 THEN DefaultMaxFileSizeMb * MB ELSE 0]
  /\ temp_path = [r \in Reqs |-> None]
  /\ file_size = [r \in Reqs |-> 0]
  /\ written = [r \in Reqs |-> 0]
  /\ \E url \in AllUrlPaths :
       dl = [r \in Reqs |-> IF r = 1 THEN [NoDl EXCEPT !.url = url] ELSE NoDl]
  /\ engine_calls = [r \in Reqs |-> 0]
  /\ result = [r \in Reqs |-> NoResult]
  /\ removes = [r \in Reqs |-> <<>>]
  /\ created = [r \in Reqs |-> None]
  /\ fault = [r \in Reqs |-> NoFault]
  /\ resp = [r \in Reqs |-> NoResp]

ResolveNext == \E r \in Reqs : ResolveFilenameWith(r, AllHeadResponses)

SpecResolve == ResolveInit /\ [][ResolveNext]_vars

\* the value of the filename parameter of a Content-Disposition header: what
\* follows the first "filename=" up to the next ";", without its quotes
CdFilename(cd) ==
  LET first == Min(Positions(cd, FILENAME_EQ))
      semis == {i \in Positions(cd, SEMI) : i > first}
      stop == IF semis = {} THEN Len(cd) ELSE Min(semis) - 1
      value == IF first + 1 > stop THEN <<>> ELSE SubSeq(cd, first + 1, stop)
  IN  StripQuotes(value)

HasSuffix(name) == PathSuffix(name) # <<>>

\* the name before the default extension, by the stated priority
StatedChoice(url, head) ==
  IF HasSuffix(Basename(url)) THEN Basename(url)
  ELSE IF head.ok /\ InText(FILENAME_EQ, head.cd) THEN CdFilename(head.cd)
  ELSE IF head.ok /\ InText("video", head.ct) THEN <<"video_file", DOT, "mp4">>
  ELSE IF head.ok /\ InText("audio", head.ct) THEN <<"audio_file", DOT, "mp3">>
  ELSE <<"media_file">>

\* C9: the resolved filename is the last URL path segment when it has a
\* suffix (and then no probe is made), else the Content-Disposition filename,
\* else the default name of the probed content type, else the fallback name;
\* a name without an extension gets ".mp4" and so classifies as video.
C9_ResolutionOrder ==
  \A r \in Reqs :
    pc[r] = "get" =>
      LET chosen == StatedChoice(dl[r].url, dl[r].head)
      IN  /\ HasSuffix(Basename(dl[r].url)) => ~dl[r].probed
          /\ ~HasSuffix(Basename(dl[r].url)) => dl[r].probed
          /\ HasSuffix(chosen) => filename[r] = chosen
          /\ ~HasSuffix(chosen) =>
               /\ filename[r] = chosen \o <<DOT, "mp4">>
               /\ get_file_type(filename[r]) = "video"

\* ------------------------------------------------ confidence on its own
\* a request about to call the engine: an upload of clip.mp4, or the URL
\* .../talk.wav downloaded under a ceiling of 1 MB
ConfidenceInit ==
  /\ model = TRUE
  /\ disk = {1}
  /\ \E upload \in BOOLEAN :
       /\ pc = [r \in Reqs |-> IF r # 1 THEN "idle"
                               ELSE IF upload THEN "dispatch" ELSE "url_dispatch"]
       /\ endpoint = [r \in Reqs |-> IF r # 1 THEN ""
                               ELSE IF upload THEN "/transcribe/" ELSE "/transcribe/url/"]
       /\ filename = [r \in Reqs |-> IF r # 1 THEN <<>>
                               ELSE IF upload THEN Name("clip", "mp4")
                               ELSE Name("talk", "wav")]
       /\ file_type = [r \in Reqs |-> IF r # 1 THEN ""
                               ELSE IF upload THEN "video" ELSE "audio"]
       /\ max_size = [r \in Reqs |-> IF r # 1 THEN 0
                               ELSE IF upload THEN VideoMaxSize ELSE MB]
       /\ dl = [r \in Reqs |-> IF r # 1 \/ upload THEN NoDl
                               ELSE [NoDl EXCEPT !.url = UrlPath(Name("talk", "wav"))]]
  /\ temp_path = [r \in Reqs |-> IF r = 1 THEN 1 ELSE None]
  /\ file_size = [r \in Reqs |-> 0]
  /\ written = [r \in Reqs |-> 0]
  /\ engine_calls = [r \in Reqs |-> 0]
  /\ result = [r \in Reqs |-> NoResult]
  /\ removes = [r \in Reqs |-> <<>>]
  /\ created = [r \in Reqs |-> IF r = 1 THEN 1 ELSE None]
  /\ fault = [r \in Reqs |-> NoFault]
  /\ resp = [r \in Reqs |-> NoResp]

ConfidenceNext ==
  \/ \E r \in Reqs : MediaDispatchWith(r, AllEngineResults)
  \/ \E r \in Reqs : UrlDispatchWith(r, AllEngineResults)

SpecConfidence == ConfidenceInit /\ [][ConfidenceNext]_vars

\* the confidence as stated: None unless every segment of a non-empty list
\* carries a log-probability, and then their mean
StatedConfidence(res) ==
  IF ~res.has_segments \/ res.segments = <<>> THEN <<>>
  ELSE IF \A i \in 1..Len(res.segments) : res.segments[i] # <<>>
    THEN <<SumSeq([i \in 1..Len(res.segments) |-> res.segments[i][1]]),
           Len(res.segments)>>
  ELSE <<>>

\* C10: in both paths the confidence of a result is None when the engine
\* result has no segments key or no segments or a segment without a
\* log-probability, and the mean of the log-probabilities otherwise.
C10_Confidence ==
  \A r \in Reqs :
    resp[r].status = 200 => resp[r].confidence = StatedConfidence(result[r])

\* both starting points of SpecConfidence are states of the pipeline
ConfidenceInitReached ==
  \E r \in Reqs :
    /\ pc[r] \in {"dispatch", "url_dispatch"}
    /\ model /\ disk = {1} /\ temp_path[r] = 1 /\ created[r] = 1
    /\ file_size[r] = 0 /\ written[r] = 0 /\ engine_calls[r] = 0
    /\ result[r] = NoResult /\ removes[r] = <<>> /\ fault[r] = NoFault
    /\ resp[r] = NoResp
    /\ \/ /\ pc[r] = "dispatch" /\ endpoint[r] = "/transcribe/"
          /\ filename[r] = Name("clip", "mp4") /\ file_type[r] = "video"
          /\ max_size[r] = VideoMaxSize /\ dl[r] = NoDl
       \/ /\ pc[r] = "url_dispatch" /\ endpoint[r] = "/transcribe/url/"
          /\ filename[r] = Name("talk", "wav") /\ file_type[r] = "audio"
          /\ max_size[r] = MB
          /\ dl[r] = [NoDl EXCEPT !.url = UrlPath(Name("talk", "wav"))]

\* ------------------------------------------------- classification on its own
\* filenames get_file_type is called with: every known extension in lower
\* and upper case, other extensions, and names whose dots and separators
\* sit where pathlib treats them specially
ExtTokens ==
  {"mp3", "wav", "m4a", "flac", "ogg", "aac", "opus", "wma",
   "mp4", "avi", "mov", "mkv", "webm", "m4v", "3gp", "flv", "wmv",
   "MP3", "WAV", "M4A", "FLAC", "OGG", "AAC", "OPUS", "WMA",
   "MP4", "AVI", "MOV", "MKV", "WEBM", "M4V", "3GP", "FLV", "WMV",
   "Mp4", "WebM", "txt", "TXT", "mp", "mp33", "mpeg"}
ClassifyNames ==
  {Name("a", e) : e \in ExtTokens}
    \cup {<<>>, <<"README">>, <<DOT, "mp3">>, <<"clip", DOT>>,
          <<"clip", DOT, "mp4", DOT>>, <<"a", DOT, "tar", DOT, "mp3">>,
          <<"a", DOT, "mp3", DOT, "txt">>, <<"d", DOT, "mp4", SLASH, "notes">>,
          <<"clip", DOT, "mp4", SLASH>>, <<"d", SLASH, DOT, "wav">>,
          <<"mp3">>, <<"a", DOT, DOT, "MOV">>}

\* a caller holding a filename, about to classify it
ClassifyInit ==
  /\ model = TRUE
  /\ disk = {}
  /\ pc = [r \in Reqs |-> IF r = 1 THEN "classify" ELSE "idle"]
  /\ endpoint = [r \in Reqs |-> IF r = 1 THEN "/transcribe/" ELSE ""]
  /\ \E name \in ClassifyNames :
       filename = [r \in Reqs |-> IF r = 1 THEN name ELSE <<>>]
  /\ file_type = [r \in Reqs |-> ""]
  /\ max_size = [r \in Reqs |-> 0]
  /\ temp_path = [r \in Reqs |-> None]
  /\ file_size = [r \in Reqs |-> 0]
  /\ written = [r \in Reqs |-> 0]
  /\ dl = [r \in Reqs |-> NoDl]
  /\ engine_calls = [r \in Reqs |-> 0]
  /\ result = [r \in Reqs |-> NoResult]
  /\ removes = [r \in Reqs |-> <<>>]
  /\ created = [r \in Reqs |-> None]
  /\ fault = [r \in Reqs |-> NoFault]
  /\ resp = [r \in Reqs |-> NoResp]

\* file_type = get_file_type(filename), a first and a second time
Classify(r) ==
  /\ pc[r] \in {"classify", "classified"}
  /\ file_type' = [file_type EXCEPT ![r] = get_file_type(filename[r])]
  /\ pc' = [pc EXCEPT ![r] = IF pc[r] = "classify" THEN "classified"
                                                  ELSE "classified_again"]
  /\ UNCHANGED <<model, disk, endpoint, filename, max_size, temp_path,
                 file_size, written, dl, engine_calls, result, removes,
                 created, fault, resp>>

ClassifyNext == \E r \in Reqs : Classify(r)

SpecClassify == ClassifyInit /\ [][ClassifyNext]_vars

Classified(r) == pc[r] \in {"classified", "classified_again"}

\* C11: get_file_type gives every filename one of the three kinds; the kind
\* is audio exactly when the lower-cased final suffix is in AUDIO_EXTENSIONS,
\* video exactly when it is in VIDEO_EXTENSIONS, unknown otherwise (no suffix
\* and the empty name included); the sets are disjoint and hold lower-case
\* suffixes only.  The kind after the second call obeys the same equivalences
\* as after the first, so both calls give the same kind.
C11_ClassifyBySuffix ==
  /\ AUDIO_EXTENSIONS \cap VIDEO_EXTENSIONS = {}
  /\ \A e \in AUDIO_EXTENSIONS \cup VIDEO_EXTENSIONS : LowerSeq(e) = e
  /\ \A r \in Reqs :
       Classified(r) =>
         LET suffix == LowerSeq(PathSuffix(filename[r]))
         IN  /\ file_type[r] \in {"audio", "video", "unknown"}
             /\ file_type[r] = "audio" <=> suffix \in AUDIO_EXTENSIONS
             /\ file_type[r] = "video" <=> suffix \in VIDEO_EXTENSIONS
             /\ suffix = <<>> => file_type[r] = "unknown"

C11_Witness ==
  \E r \in Reqs :
    /\ pc[r] = "classified_again"
    /\ filename[r] = Name("a", "WAV")
    /\ file_type[r] = "audio"

\* C12: a success response carries the kind get_file_type gives the
\* request's own filename (declared for an upload, resolved for a URL), which
\* is audio or video, and source "upload" on the upload endpoints and "url"
\* on the URL endpoints.
C12_ResponseKindAndSource ==
  \A r \in Reqs :
    resp[r].status = 200 =>
      /\ resp[r].file_type = get_file_type(filename[r])
      /\ resp[r].file_type \in {"audio", "video"}
      /\ IsUpload(r) \/ IsUrl(r)
      /\ IsUpload(r) => resp[r].source = "upload"
      /\ IsUrl(r) => resp[r].source = "url"

C12_Witness ==
  \E r \in Reqs :
    /\ pc[r] = "done" /\ endpoint[r] = "/transcribe/from-url/"
    /\ resp[r].status = 200 /\ resp[r].source = "url"
    /\ resp[r].file_type = "audio" /\ filename[r] = Name("talk", "wav")

\* the handler of request r is inside a blocking call: the engine call, the
\* GET or the body transfer of the download, or the copy of the upload
InBlockingCall(r) == pc[r] \in {"dispatch", "url_dispatch", "get", "stream", "stage"}

\* C13: while one request is inside its engine call, download or copy, the
\* handler of another request that has arrived can start (a temporary file
\* name being available to it).
C13_BlocksOnlyOwnCaller ==
  \A a, b \in Reqs :
    (a # b /\ InBlockingCall(a) /\ pc[b] = "pending" /\ FreePaths # {})
      => ENABLED (BeginUpload(b) \/ BeginUrl(b))

\* C14: model.transcribe is called only from the dispatch point of a handler,
\* on an existing artifact of a request classified audio or video; a request
\* comes to that point only with its artifact closed and holding every byte
\* received, and with a size within its ceiling: for an upload the size of
\* the written artifact, for a URL the running total of the download.
C14_DispatchOnlyComplete ==
  [][\A r \in Reqs :
       /\ engine_calls'[r] > engine_calls[r] =>
            /\ pc[r] \in {"dispatch", "url_dispatch"}
            /\ temp_path[r] # None /\ Exists(temp_path[r])
            /\ file_type[r] \in {"audio", "video"}
       /\ (pc'[r] = "dispatch" /\ pc[r] # "dispatch") =>
            /\ pc[r] = "size_check"
            /\ file_type[r] \in {"audio", "video"}
            /\ written[r] <= max_size[r]
       /\ (pc'[r] = "url_dispatch" /\ pc[r] # "url_dispatch") =>
            /\ pc[r] = "returned"
            /\ ~dl[r].open
            /\ written[r] = file_size[r]
            /\ file_size[r] <= max_size[r]
            /\ file_type'[r] \in {"audio", "video"}]_vars

\* C15: a request creates its artifact under a name no existing file has, so
\* no two requests in flight share an artifact path; the path a handler holds,
\* and so the path it gives the engine, is that of its own artifact; every
\* delete a request makes is of its own artifact, and it makes at most one.
C15_OwnArtifactOnly ==
  [][\A r \in Reqs :
       /\ (created'[r] # created[r] /\ created'[r] # None) =>
            /\ ~Exists(created'[r])
            /\ \A o \in Reqs \ {r} : created[o] # created'[r]
       /\ \A o \in Reqs \ {r} :
            created'[r] # None => created'[o] # created'[r]
       /\ temp_path'[r] # None => temp_path'[r] = created'[r]
       /\ engine_calls'[r] > engine_calls[r] =>
            (temp_path[r] # None /\ temp_path[r] = created[r])
       /\ Len(removes'[r]) <= 1
       /\ \A i \in 1..Len(removes'[r]) :
            removes'[r][i].path # None /\ removes'[r][i].path = created'[r]
       /\ \A p \in disk \ disk' :
            \E o \in Reqs : created[o] = p /\ removes'[o] # removes[o]]_vars

\* a request staged into a name of its own while the file an earlier request
\* left behind was still on disk, had the engine run on it and deleted it
C15_Witness ==
  \E r \in Reqs :
    /\ pc[r] = "done" /\ engine_calls[r] = 1
    /\ created[r] = 2 /\ temp_path[r] = 2
    /\ removes[r] = <<Removal(2, TRUE)>>
    /\ disk = {1}
    /\ \E o \in Reqs \ {r} : pc[o] = "pending"

\* the probe gave nothing to name the file by: it raised, or its response
\* has no filename parameter with a value and no video or audio content type
ProbeFailed(head) ==
  \/ ~head.ok
  \/ /\ ~InText(FILENAME_EQ, head.cd) \/ CdFilename(head.cd) = <<>>
     /\ ~InText("video", head.ct) /\ ~InText("audio", head.ct)

\* C16: whatever the HEAD probe did, download_file_from_url goes on to the
\* GET with no error raised; when the probe failed (it raised, or its headers
\* are missing or malformed) the filename is the fallback name with the
\* default extension.
C16_ProbeNeverAborts ==
  \A r \in Reqs :
    (pc[r] = "get" /\ dl[r].probed) =>
      /\ fault[r] = NoFault /\ resp[r] = NoResp
      /\ ProbeFailed(dl[r].head) => filename[r] = <<"media_file", DOT, "mp4">>

\* C17: a step in which a request deletes its artifact, whether the delete
\* succeeds or fails, leaves the outcome what it was: in the finally blocks
\* the response already determined is unchanged, and in the mid-stream
\* deletion of the download the outcome is the 413 of the oversize body.
C17_ReleaseFailureNotEscalated ==
  [][\A r \in Reqs :
       (removes'[r] # removes[r] /\ removes'[r] # <<>>) =>
         /\ pc[r] \in {"media_finally", "url_finally"} =>
              (resp'[r] = resp[r] /\ fault'[r] = fault[r])
         /\ pc[r] = "stream" =>
              (resp'[r].status = 413 /\ fault'[r].kind = "PayloadTooLarge")]_vars

\* ------------------------------------------------------------- termination
\* a step of the handler of request r, from its first line to its return
HandlerStep(r) ==
  \/ transcribe_video(r) \/ MediaGuards(r) \/ MediaStage(r)
  \/ MediaSizeCheck(r) \/ MediaDispatch(r) \/ MediaFinally(r)
  \/ UrlGuards(r) \/ ResolveFilename(r) \/ Get(r) \/ CreateTemp(r)
  \/ DownloadChunk(r) \/ DownloadEnd(r) \/ UrlClassify(r)
  \/ UrlDispatch(r) \/ UrlFinally(r)

\* One request on the event loop.  A started handler runs to its return
\* before any other handler takes a step, so its progress is that of a
\* handler alone on the loop.  The inputs are narrowed to those that decide
\* the path through the handler: explicit ceilings of 0 and 1 MB, a
\* Content-Length that is absent, malformed, small or too large, chunks of
\* 1 byte or just under 1 MB, and one engine result.
NarrowInputs(r) ==
  /\ endpoint'[r] = "/transcribe/url/" => max_size'[r] \in {0, MB}
  /\ dl'[r].content_length \in {CLAbsent, CLMalformed, 0, MB + 1}
  /\ dl'[r].head \in {NoHead, HeadResponse(<<>>, <<"video", SLASH, "mp4">>)}
  /\ (IsUrl(r)' /\ file_size'[r] > file_size[r]) =>
       file_size'[r] - file_size[r] \in {1, MB - chunk_size}
  /\ IsUpload(r)' => written'[r] \in {0, AudioMaxSize + 1, VideoMaxSize + COPY_BUFSIZE}
  /\ result'[r] \in {NoResult, NoSegmentsKey}

SerialStep(r) == HandlerStep(r) /\ NarrowInputs(r)

SerialNext ==
  \/ Startup
  \/ \E r \in {1} : Receive(r)
  \/ \E r \in {1} : BeginUpload(r)
  \/ \E r \in {1} : BeginUrl(r)
  \/ \E r \in {1} : SerialStep(r)

\* every call a handler makes returns or raises (the engine call, the copy,
\* the network calls with their timeouts), so a handler that can take a step
\* takes one
FairSpec == Init /\ [][SerialNext]_vars /\ WF_vars(SerialStep(1))

Started(r) == pc[r] \notin {"idle", "pending", "done"}
Determined(r) == resp[r] # NoResp

\* C18: a request whose handler has started comes to its return with exactly
\* one response, a success result or one typed error; once the response is
\* determined it does not change and the handler does nothing more than its
\* finally block, which touches only the artifact.
C18_OneTerminalOutcome ==
  /\ \A r \in Reqs : Started(r) ~> (pc[r] = "done")
  /\ [](\A r \in Reqs :
          /\ pc[r] = "done" =>
               /\ resp[r].status \in {200, 400, 413, 500, 503}
               /\ resp[r].status = 200 <=> fault[r] = NoFault
          /\ Determined(r) => pc[r] \in {"media_finally", "url_finally", "done"}
          /\ (Started(r) /\ pc[r] \notin {"media_finally", "url_finally"})
               => ~Determined(r))
  /\ [][\A r \in Reqs :
         (Determined(r) /\ pc[r] # "done") =>
           /\ resp'[r] = resp[r] /\ fault'[r] = fault[r]
           /\ result'[r] = result[r] /\ engine_calls'[r] = engine_calls[r]
           /\ pc'[r] \in {pc[r], "done"}]_vars

C18_Witness ==
  \E r \in Reqs :
    /\ pc[r] = "done" /\ IsUrl(r)
    /\ resp[r].status = 200 /\ removes[r] = <<Removal(created[r], TRUE)>>
====
